---- MODULE Spec2Model ----
(***************************************************************************)
(* Model of the Novartis annual-report extraction engine (src/parser.py,   *)
(* configured by src/config.py).  Texts are sequences of one-character     *)
(* strings, so that the substring tests, whitespace splits and regular     *)
(* expression searches of the code are computed character by character.   *)
(***************************************************************************)
EXTENDS Integers, Sequences, FiniteSets, TLC

\* Python's None where a number is expected (every number of the model is >= 0).
None == -1

(***************************************************************************)
(* Characters and the str / re primitives the parser uses.                 *)
(***************************************************************************)
UPPER == <<"A", "B", "C", "D", "E", "F", "G", "H", "I", "J", "K", "L", "M", "N", "O", "P", "Q", "R", "S", "T", "U", "V", "W", "X", "Y", "Z">>
LOWER == <<"a", "b", "c", "d", "e", "f", "g", "h", "i", "j", "k", "l", "m", "n", "o", "p", "q", "r", "s", "t", "u", "v", "w", "x", "y", "z">>
DIGITS == <<"0", "1", "2", "3", "4", "5", "6", "7", "8", "9">>

\* str.isspace() on the characters that occur in the texts of the model.
IsSpace(c) == c \in {" ", "\n", "\t"}

\* the regular expression class \d
DigitSet == {DIGITS[i] : i \in 1..10}
IsDigit(c) == c \in DigitSet

\* the regular expression class \w (letters, digits, underscore)
WordSet == DigitSet \cup {"_"} \cup {UPPER[i] : i \in 1..26} \cup {LOWER[i] : i \in 1..26}
IsWord(c) == c \in WordSet

\* str.lower() of one character
LowerMap == [c \in {UPPER[i] : i \in 1..26} |-> LOWER[CHOOSE i \in 1..26 : UPPER[i] = c]]
lowerChar(c) == IF c \in DOMAIN LowerMap THEN LowerMap[c] ELSE c

\* str.lower()
lower(s) == [i \in 1..Len(s) |-> lowerChar(s[i])]

\* the match of needle at position i of hay (both already case-folded or not)
MatchAt(hay, needle, i) ==
    /\ i + Len(needle) - 1 <= Len(hay)
    /\ \A k \in 1..Len(needle) : hay[i + k - 1] = needle[k]

\* Python's `needle in hay`
Contains(hay, needle) == \E i \in 1..(Len(hay) - Len(needle) + 1) : MatchAt(hay, needle, i)

\* the value of one digit character
DigitVal(c) == (CHOOSE i \in 1..10 : DIGITS[i] = c) - 1

\* int() of a non-empty string of digits
RECURSIVE DigitsToNat(_)
DigitsToNat(s) ==
    IF Len(s) = 0 THEN 0
    ELSE 10 * DigitsToNat(SubSeq(s, 1, Len(s) - 1)) + DigitVal(s[Len(s)])

\* the end (exclusive) of the maximal run of digits that starts at i (\d+)
RECURSIVE DigitRunEnd(_, _)
DigitRunEnd(s, i) == IF i <= Len(s) /\ IsDigit(s[i]) THEN DigitRunEnd(s, i + 1) ELSE i

\* the end (exclusive) of the maximal run of whitespace that starts at i (\s+)
RECURSIVE SpaceRunEnd(_, _)
SpaceRunEnd(s, i) == IF i <= Len(s) /\ IsSpace(s[i]) THEN SpaceRunEnd(s, i + 1) ELSE i

\* the end (exclusive) of the maximal run of non-whitespace that starts at i
RECURSIVE TokenEnd(_, _)
TokenEnd(s, i) == IF i <= Len(s) /\ ~IsSpace(s[i]) THEN TokenEnd(s, i + 1) ELSE i

\* str.split(): the maximal runs of non-whitespace, from position i on
RECURSIVE SplitFrom(_, _)
SplitFrom(s, i) ==
    IF i > Len(s) THEN << >>
    ELSE IF IsSpace(s[i]) THEN SplitFrom(s, SpaceRunEnd(s, i))
    ELSE <<SubSeq(s, i, TokenEnd(s, i) - 1)>> \o SplitFrom(s, TokenEnd(s, i))

split(s) == SplitFrom(s, 1)

\* text.split('\n'): the pieces between newlines (always at least one piece)
RECURSIVE SplitLinesFrom(_, _, _)
SplitLinesFrom(s, start, i) ==
    IF i > Len(s) THEN <<SubSeq(s, start, Len(s))>>
    ELSE IF s[i] = "\n" THEN <<SubSeq(s, start, i - 1)>> \o SplitLinesFrom(s, i + 1, i + 1)
    ELSE SplitLinesFrom(s, start, i + 1)

splitlines(s) == SplitLinesFrom(s, 1, 1)

\* re.findall(r'\d+', s): the maximal digit runs, left to right
RECURSIVE FindDigitRuns(_, _)
FindDigitRuns(s, i) ==
    IF i > Len(s) THEN << >>
    ELSE IF IsDigit(s[i])
         THEN <<SubSeq(s, i, DigitRunEnd(s, i) - 1)>> \o FindDigitRuns(s, DigitRunEnd(s, i))
         ELSE FindDigitRuns(s, i + 1)

findall_digits(s) == FindDigitRuns(s, 1)

(***************************************************************************)
(* Configuration (src/config.py).                                          *)
(***************************************************************************)
\* the keywords of the composition-of-assets section, most specific first
PDF_CHART_KEYWORDS == <<
    <<"T", "h", "e", " ", "c", "o", "m", "p", "o", "s", "i", "t", "i", "o", "n", " ", "o", "f", " ", "a", "s", "s", "e", "t", "s", " ", "b", "r", "e", "a", "k", "s", " ", "d", "o", "w", "n", " ", "a", "s", " ", "f", "o", "l", "l", "o", "w", "s", ":">>,
    <<"T", "h", "e", " ", "c", "o", "m", "p", "o", "s", "i", "t", "i", "o", "n", " ", "o", "f", " ", "a", "s", "s", "e", "t", "s">>,
    <<"c", "o", "m", "p", "o", "s", "i", "t", "i", "o", "n", " ", "o", "f", " ", "a", "s", "s", "e", "t", "s">> >>

\* asset class -> aliases, in the insertion order of the dict
PDF_ASSET_NAMES == <<
    [code |-> "INFRASTRUCTURE", names |-> <<
        <<"I", "n", "f", "r", "a", "s", "t", "r", "u", "c", "t", "u", "r", "e", " ", "i", "n", "v", "e", "s", "t", "m", "e", "n", "t", "s">>,
        <<"I", "n", "f", "r", "a", "s", "t", "r", "u", "c", "t", "u", "r", "e">> >>],
    [code |-> "CASH", names |-> <<
        <<"L", "i", "q", "u", "i", "d", "i", "t", "y", " ", "d", "e", "p", "o", "s", "i", "t", "s">>,
        <<"L", "i", "q", "u", "i", "d", "i", "t", "y", " ", "/", " ", "R", "e", "c", "e", "i", "v", "a", "b", "l", "e", "s">>,
        <<"L", "i", "q", "u", "i", "d", "i", "t", "y">>,
        <<"R", "e", "c", "e", "i", "v", "a", "b", "l", "e", "s">> >>],
    [code |-> "MORTGAGES", names |-> <<
        <<"M", "o", "r", "t", "g", "a", "g", "e", "s">> >>],
    [code |-> "BONDS", names |-> <<
        <<"B", "o", "n", "d", "s">> >>],
    [code |-> "EQUITIES", names |-> <<
        <<"S", "h", "a", "r", "e", "s">>,
        <<"E", "q", "u", "i", "t", "i", "e", "s">> >>],
    [code |-> "REALESTATE", names |-> <<
        <<"R", "e", "a", "l", " ", "e", "s", "t", "a", "t", "e", " ", "i", "n", "v", "e", "s", "t", "m", "e", "n", "t", "s">>,
        <<"R", "e", "a", "l", " ", "e", "s", "t", "a", "t", "e">> >>],
    [code |-> "HEDGEFUNDS/PRIVATEEQUITY", names |-> <<
        <<"H", "e", "d", "g", "e", " ", "f", "u", "n", "d", "s", " ", "a", "n", "d", " ", "p", "r", "i", "v", "a", "t", "e", " ", "e", "q", "u", "i", "t", "y">>,
        <<"H", "e", "d", "g", "e", " ", "F", "u", "n", "d", "s", " ", "/", " ", "P", "r", "i", "v", "a", "t", "e", " ", "E", "q", "u", "i", "t", "y">> >>],
    [code |-> "CURRENCYOVERLAY", names |-> <<
        <<"C", "u", "r", "r", "e", "n", "c", "y", " ", "o", "v", "e", "r", "l", "a", "y">> >>],
    [code |-> "COLLATERAL", names |-> <<
        <<"C", "o", "l", "l", "a", "t", "e", "r", "a", "l">> >>],
    [code |-> "TOTAL", names |-> <<
        <<"T", "o", "t", "a", "l", " ", "a", "s", "s", "e", "t", "s">> >>] >>

\* the asset classes of the OUTPUT_COLUMNS rows whose metric is ACTUALALLOCATION
OUTPUT_COLUMNS_ALLOCATION ==
    <<"INFRASTRUCTURE", "CASH", "MORTGAGES", "BONDS", "EQUITIES", "REALESTATE",
      "HEDGEFUNDS/PRIVATEEQUITY">>

TARGET_YEAR == 2022
PROCESS_ALL_YEARS == FALSE
PARALLEL_DOWNLOADS == TRUE
REQUIRE_ALL_ASSETS == TRUE
VALIDATE_PERCENTAGE_TOTAL == TRUE
PERCENTAGE_TOLERANCE == 2

(***************************************************************************)
(* A document: the path handed to parse_pdf, whether pdfplumber can open   *)
(* the file, and what page.extract_text() returns for each page (a text,   *)
(* or NoneText for a page without extractable text).  The field cur is the *)
(* current-period total-assets figure the balance sheet was rendered from; *)
(* the parser never reads it.                                              *)
(***************************************************************************)
NoneText == <<"None">>

\* an exception raised by a statement / a value it evaluates to
Raise == [exc |-> TRUE, ret |-> None]
Ok(v) == [exc |-> FALSE, ret |-> v]

\* (variant: the exception is not caught)
Except_uncaught(r, handler) == r

\* `except Exception as e:` followed by the handler's value
Except(r, handler) == IF r.exc THEN Ok(handler) ELSE r

\* os.path.basename
RECURSIVE basename(_)
basename(path) ==
    IF \E i \in 1..Len(path) : path[i] = "/"
    THEN basename(SubSeq(path, (CHOOSE i \in 1..Len(path) : path[i] = "/") + 1, Len(path)))
    ELSE path

\* the least element of a non-empty set of positions (the leftmost match)
Leftmost(S) == CHOOSE i \in S : \A j \in S : i <= j

\* re.search(r'(\d{4})', filename): group 1, or NoneText
search_year(filename) ==
    LET hits == {i \in 1..(Len(filename) - 3) : \A k \in 0..3 : IsDigit(filename[i + k])}
    IN  IF hits = {} THEN NoneText
        ELSE SubSeq(filename, Leftmost(hits), Leftmost(hits) + 3)

AnnualReport == <<"A", "n", "n", "u", "a", "l", " ", "R", "e", "p", "o", "r", "t">>

\* re.search(r'Annual Report\s+(\d{4})', text): group 1, or NoneText
search_annual_report(text) ==
    LET n == Len(AnnualReport)
        hits == {i \in 1..Len(text) :
                    /\ MatchAt(text, AnnualReport, i)
                    /\ i + n <= Len(text)
                    /\ IsSpace(text[i + n])
                    /\ LET d == SpaceRunEnd(text, i + n)
                       IN  /\ d + 3 <= Len(text)
                           /\ \A k \in 0..3 : IsDigit(text[d + k])}
    IN  IF hits = {} THEN NoneText
        ELSE LET d == SpaceRunEnd(text, Leftmost(hits) + n) IN SubSeq(text, d, d + 3)

\* the loop over pdf.pages[:3] of extract_year_from_pdf, from page i (1-based)
RECURSIVE year_from_pages(_, _)
year_from_pages(pages, i) ==
    IF i > Len(pages) \/ i > 3 THEN Ok(NoneText)
    ELSE IF pages[i] = NoneText THEN Raise
    ELSE IF search_annual_report(pages[i]) # NoneText THEN Ok(search_annual_report(pages[i]))
    ELSE year_from_pages(pages, i + 1)

\* the try block of extract_year_from_pdf
year_from_content(doc) ==
    IF ~doc.readable THEN Raise ELSE year_from_pages(doc.pages, 1)

extract_year_from_pdf(doc) ==
    IF search_year(basename(doc.path)) # NoneText
    THEN Ok(search_year(basename(doc.path)))
    ELSE Except(year_from_content(doc), NoneText)

\* `keyword.lower() in text.lower()` for some keyword of the list
has_keyword(text) ==
    LET ltext == lower(text)
    IN  \E k \in 1..Len(PDF_CHART_KEYWORDS) : Contains(ltext, lower(PDF_CHART_KEYWORDS[k]))

\* (variant: a page without text is skipped, as find_balance_sheet_page does)
RECURSIVE scan_composition_skipping(_, _)
scan_composition_skipping(pages, i) ==
    IF i > Len(pages) THEN Ok([page_num |-> None, text |-> NoneText])
    ELSE IF pages[i] # NoneText /\ pages[i] # << >> /\ has_keyword(pages[i])
         THEN Ok([page_num |-> i - 1, text |-> pages[i]])
         ELSE scan_composition_skipping(pages, i + 1)

\* the page loop of find_composition_section, from page i (1-based);
\* the page number returned is 0-based as in the code
RECURSIVE scan_composition(_, _)
scan_composition(pages, i) ==
    IF i > Len(pages) THEN Ok([page_num |-> None, text |-> NoneText])
    ELSE IF pages[i] = NoneText THEN Raise
    ELSE IF has_keyword(pages[i]) THEN Ok([page_num |-> i - 1, text |-> pages[i]])
    ELSE scan_composition(pages, i + 1)

find_composition_section(doc) ==
    Except(IF ~doc.readable THEN Raise ELSE scan_composition(doc.pages, 1),
           [page_num |-> None, text |-> NoneText])

(***************************************************************************)
(* The state: a batch of documents, each handed to parse_pdf in turn, and   *)
(* the locals of the call in progress.  A local keeps its last value until *)
(* the next call assigns it.                                               *)
(***************************************************************************)
VARIABLES
    docs,          \* the documents handed to parse_pdf, in call order
    idx,           \* the document of the current call (1-based)
    pc,            \* the position of the current call inside parse_pdf
    year,          \* locals of parse_pdf
    page_num,
    page_text,
    percentages,
    total_assets,
    log,           \* the warnings logged by the current call
    returned,      \* per finished call: what parse_pdf returned and what it logged
    escaped,       \* an exception left parse_pdf
    config,        \* the downloader's settings: PROCESS_ALL_YEARS and TARGET_YEAR
    reports,       \* the report links handed to filter_reports_by_config
    filtered,      \* what filter_reports_by_config returned
    scraper_pc,    \* the position of the downloader
    call,          \* the method of the downloader that was called
    parallel_downloads,  \* the setting PARALLEL_DOWNLOADS
    driver,        \* self.driver: "none", "open" or "quit"
    outcomes,      \* per target report: what its download_pdf_direct call gave
    downloaded_files,    \* the local list of download_reports
    result         \* what download_reports hands to its caller

parser_vars == <<docs, idx, pc, year, page_num, page_text, percentages, total_assets,
                 log, returned, escaped>>

download_vars == <<call, parallel_downloads, driver, outcomes, downloaded_files, result>>

scraper_vars == <<config, reports, filtered, scraper_pc, download_vars>>

vars == <<docs, idx, pc, year, page_num, page_text, percentages, total_assets,
          log, returned, escaped, config, reports, filtered, scraper_pc,
          call, parallel_downloads, driver, outcomes, downloaded_files, result>>

(***************************************************************************)
(* Allocation percentages.                                                 *)
(***************************************************************************)
\* re.search(rf'{re.escape(asset_name)}\s+(\d+)%', text, re.IGNORECASE):
\* float(group 1) of the leftmost match, or None.  ltext is text.lower().
search_percent(asset_name, text, ltext) ==
    LET n == Len(asset_name)
        la == lower(asset_name)
        hits == {i \in 1..Len(text) :
                    /\ MatchAt(ltext, la, i)
                    /\ i + n <= Len(text)
                    /\ IsSpace(text[i + n])
                    /\ LET d == SpaceRunEnd(text, i + n)
                       IN  /\ d <= Len(text)
                           /\ IsDigit(text[d])
                           /\ DigitRunEnd(text, d) <= Len(text)
                           /\ text[DigitRunEnd(text, d)] = "%"}
    IN  IF hits = {} THEN None
        ELSE LET d == SpaceRunEnd(text, Leftmost(hits) + n)
             IN  DigitsToNat(SubSeq(text, d, DigitRunEnd(text, d) - 1))

\* (variant: the loop without its break, the last matching alias wins)
RECURSIVE last_alias_match(_, _, _, _)
last_alias_match(asset_names, text, ltext, k) ==
    IF k > Len(asset_names) THEN None
    ELSE LET rest == last_alias_match(asset_names, text, ltext, k + 1)
         IN  IF rest # None THEN rest ELSE search_percent(asset_names[k], text, ltext)

\* the inner loop `for asset_name in asset_names` with its break, from alias k
RECURSIVE first_alias_match(_, _, _, _)
first_alias_match(asset_names, text, ltext, k) ==
    IF k > Len(asset_names) THEN None
    ELSE LET percentage == search_percent(asset_names[k], text, ltext)
         IN  IF percentage # None THEN percentage
             ELSE first_alias_match(asset_names, text, ltext, k + 1)

\* percentages[asset_code] = percentage
SetItem(d, key, val) == [x \in DOMAIN d \cup {key} |-> IF x = key THEN val ELSE d[x]]

\* the empty dict
EmptyDict == [x \in {} |-> 0]

\* (variant: the dict outlives the call, as an attribute of the parser would)
stale_percentages == percentages

\* `percentages = {}`: a new dict for every call
fresh_percentages == EmptyDict

\* the outer loop `for asset_code, asset_names in config.PDF_ASSET_NAMES.items()`
RECURSIVE percentages_from(_, _, _, _)
percentages_from(text, ltext, c, acc) ==
    IF c > Len(PDF_ASSET_NAMES) THEN acc
    ELSE LET v == first_alias_match(PDF_ASSET_NAMES[c].names, text, ltext, 1)
         IN  percentages_from(text, ltext, c + 1,
                              IF v # None THEN SetItem(acc, PDF_ASSET_NAMES[c].code, v) ELSE acc)

extract_percentages_from_text(text) ==
    percentages_from(text, lower(text), 1, fresh_percentages)

\* sum(d[k] for k in keys)
RECURSIVE SumOver(_, _)
SumOver(d, keys) ==
    IF keys = {} THEN 0
    ELSE LET k == CHOOSE x \in keys : TRUE IN d[k] + SumOver(d, keys \ {k})

known_assets == {"INFRASTRUCTURE", "BONDS", "EQUITIES", "REALESTATE", "HEDGEFUNDS/PRIVATEEQUITY"}

\* (variant: the derived value is not checked against [0, 100])
calculate_cash_unchecked(p) ==
    IF known_assets \subseteq DOMAIN p THEN 100 - SumOver(p, known_assets) ELSE None

calculate_cash_percentage(pcts) ==
    IF known_assets \subseteq DOMAIN pcts
    THEN LET cash_percentage == 100 - SumOver(pcts, known_assets)
         IN  IF 0 <= cash_percentage /\ cash_percentage <= 100 THEN cash_percentage ELSE None
    ELSE None

(***************************************************************************)
(* Total assets.                                                           *)
(***************************************************************************)
BalanceSheet == <<"b", "a", "l", "a", "n", "c", "e", " ", "s", "h", "e", "e", "t">>
TotalAssets == <<"t", "o", "t", "a", "l", " ", "a", "s", "s", "e", "t", "s">>
TotalLiabilities == <<"t", "o", "t", "a", "l", " ", "l", "i", "a", "b", "i", "l", "i", "t", "i", "e", "s">>
Total == <<"t", "o", "t", "a", "l">>
Assets == <<"a", "s", "s", "e", "t", "s">>
Nan == <<"n", "a", "n">>

\* the page loop of find_balance_sheet_page, from page i (1-based)
RECURSIVE scan_balance_sheet(_, _)
scan_balance_sheet(pages, i) ==
    IF i > Len(pages) THEN Ok(None)
    ELSE IF pages[i] # NoneText /\ pages[i] # << >> /\ Contains(lower(pages[i]), BalanceSheet)
         THEN Ok(i - 1)
         ELSE scan_balance_sheet(pages, i + 1)

find_balance_sheet_page(doc) ==
    Except(IF ~doc.readable THEN Raise ELSE scan_balance_sheet(doc.pages, 1), None)

\* str.strip()
RECURSIVE lstrip(_)
lstrip(s) == IF s # << >> /\ IsSpace(s[1]) THEN lstrip(Tail(s)) ELSE s

RECURSIVE rstrip(_)
rstrip(s) == IF s # << >> /\ IsSpace(s[Len(s)]) THEN rstrip(SubSeq(s, 1, Len(s) - 1)) ELSE s

strip(s) == rstrip(lstrip(s))

\* str(value_str).replace(' ', '').replace(',', '').replace('\xa0', '').strip()
\* (the texts of the model hold no non-breaking space)
cleaned(s) == strip(SelectSeq(s, LAMBDA c : c \notin {" ", ","}))

\* float(s), None standing for ValueError.  The texts of the model hold no sign,
\* decimal point, exponent, underscore, "inf" or "nan", so the strings float()
\* accepts are the non-empty strings of digits.
float(s) ==
    IF s # << >> /\ \A i \in 1..Len(s) : IsDigit(s[i]) THEN DigitsToNat(s) ELSE None

\* (variant: a string that is no number gives 0)
clean_number_zero(value_str) ==
    IF value_str = << >> \/ value_str = Nan \/ float(cleaned(value_str)) = None THEN 0
    ELSE float(cleaned(value_str))

clean_number(value_str) ==
    IF value_str = << >> \/ value_str = Nan THEN None
    ELSE float(cleaned(value_str))

\* re.search(r'\b1[34]\d{3}\b', line): the matched text, or NoneText
search_five_digit(line) ==
    LET hits == {i \in 1..(Len(line) - 4) :
                    /\ line[i] = "1"
                    /\ line[i + 1] \in {"3", "4"}
                    /\ \A k \in 2..4 : IsDigit(line[i + k])
                    /\ (i = 1 \/ ~IsWord(line[i - 1]))
                    /\ (i + 4 = Len(line) \/ ~IsWord(line[i + 5]))}
    IN  IF hits = {} THEN NoneText ELSE SubSeq(line, Leftmost(hits), Leftmost(hits) + 4)

\* (variant: the pairwise loop without the upper limit of the range)
RECURSIVE pairwise_unbounded(_, _)
pairwise_unbounded(digit_sequences, i) ==
    IF i > Len(digit_sequences) - 1 THEN None
    ELSE LET val == clean_number(digit_sequences[i] \o digit_sequences[i + 1])
         IN  IF val # None /\ val # 0 /\ 10000 <= val
             THEN val
             ELSE pairwise_unbounded(digit_sequences, i + 1)

\* the loop `for i in range(len(digit_sequences) - 1)` of the fallback, from
\* pair i (1-based): the first accepted value, or None
RECURSIVE pairwise(_, _)
pairwise(digit_sequences, i) ==
    IF i > Len(digit_sequences) - 1 THEN None
    ELSE LET val == clean_number(digit_sequences[i] \o digit_sequences[i + 1])
         IN  IF val # None /\ val # 0 /\ 10000 <= val /\ val <= 50000
             THEN val
             ELSE pairwise(digit_sequences, i + 1)

\* the last resort of the fallback
last_resort(line) ==
    IF search_five_digit(line) # NoneText
       /\ clean_number(search_five_digit(line)) # None
       /\ clean_number(search_five_digit(line)) # 0
    THEN clean_number(search_five_digit(line))
    ELSE None

\* (variant: the last resort is tried before the pairwise concatenation)
extract_total_assets_last_resort_first(line, parts) ==
    LET digit_sequences == findall_digits(line)
    IN  IF last_resort(line) # None THEN last_resort(line)
        ELSE IF Len(digit_sequences) >= 2 THEN pairwise(digit_sequences, 1)
        ELSE None

extract_total_assets_fallback(line, parts) ==
    LET digit_sequences == findall_digits(line)
    IN  IF Len(digit_sequences) >= 2 /\ pairwise(digit_sequences, 1) # None
        THEN pairwise(digit_sequences, 1)
        ELSE last_resort(line)

\* (variant: a line that also holds 'total liabilities' is taken as well)
is_total_assets_line_any(line) == Contains(lower(line), TotalAssets)

\* `'total assets' in line.lower() and 'total liabilities' not in line.lower()`
is_total_assets_line(line) ==
    LET lline == lower(line)
    IN  Contains(lline, TotalAssets) /\ ~Contains(lline, TotalLiabilities)

\* (variant: the second pair of groups, the prior year, is reconstructed)
total_assets_of_line_prior(line) ==
    LET parts == split(line)
    IN  IF Len(parts) # 6 THEN extract_total_assets_fallback(line, parts)
        ELSE IF lower(parts[1]) # Total \/ lower(parts[2]) # Assets THEN None
        ELSE clean_number(parts[5] \o parts[6])

\* the body of the `if` of the line loop: what the selected line yields
total_assets_of_line(line) ==
    LET parts == split(line)
    IN  IF Len(parts) # 6 THEN extract_total_assets_fallback(line, parts)
        ELSE IF lower(parts[1]) # Total \/ lower(parts[2]) # Assets THEN None
        ELSE clean_number(parts[3] \o parts[4])

\* (variant: a selected line that yields nothing does not end the loop)
RECURSIVE scan_lines_until_value(_, _)
scan_lines_until_value(lines, i) ==
    IF i > Len(lines) THEN None
    ELSE IF is_total_assets_line(lines[i]) /\ total_assets_of_line(lines[i]) # None
         THEN total_assets_of_line(lines[i])
         ELSE scan_lines_until_value(lines, i + 1)

\* the loop `for line in lines`, from line i (1-based)
RECURSIVE scan_lines(_, _)
scan_lines(lines, i) ==
    IF i > Len(lines) THEN None
    ELSE IF is_total_assets_line(lines[i]) THEN total_assets_of_line(lines[i])
    ELSE scan_lines(lines, i + 1)

\* the try block of extract_total_assets_from_table
total_assets_from_page(doc, n) ==
    IF ~doc.readable THEN Raise
    ELSE LET text == doc.pages[n + 1]
         IN  IF text = NoneText \/ text = << >> THEN Ok(None)
             ELSE Ok(scan_lines(splitlines(text), 1))

\* extract_total_assets_from_table(pdf_path), page_num defaulting to None
extract_total_assets_from_table(doc) ==
    LET found == find_balance_sheet_page(doc)
    IN  IF found.exc THEN found
        ELSE IF found.ret = None THEN Ok(None)
        ELSE Except(total_assets_from_page(doc, found.ret), None)

(***************************************************************************)
(* parse_pdf, one action per step, called once per document of a batch.    *)
(***************************************************************************)
current_doc == docs[idx]

\* `return None` of parse_pdf
NoResult == [none |-> TRUE]

\* the dict built at `result = {...}`
Result(y, t, p) == [year |-> y, total_assets |-> t, percentages |-> p]

\* the batch run goes on to its next document, if there is one
NextDocument ==
    /\ idx' = idx + 1
    /\ pc' = IF idx + 1 > Len(docs) THEN "done" ELSE "year"

\* `return v` of parse_pdf: the value goes to the caller, with what the call logged
Return(v) ==
    /\ returned' = Append(returned, [result |-> v, log |-> log'])
    /\ NextDocument

\* an exception propagates out of parse_pdf and ends the run
Propagate ==
    /\ escaped' = TRUE
    /\ pc' = "crashed"
    /\ UNCHANGED <<idx, returned>>

\* year = self.extract_year_from_pdf(pdf_path); if not year: return None
ExtractYear ==
    /\ pc = "year"
    /\ LET r == extract_year_from_pdf(current_doc)
       IN  IF r.exc
           THEN Propagate /\ UNCHANGED <<year, log>>
           ELSE /\ year' = r.ret
                /\ log' = {}
                /\ IF r.ret = NoneText \/ r.ret = << >>
                   THEN Return(NoResult)
                   ELSE pc' = "section" /\ UNCHANGED <<idx, returned>>
                /\ UNCHANGED escaped
    /\ UNCHANGED <<scraper_vars, docs, page_num, page_text, percentages, total_assets>>

\* page_num, page_text = self.find_composition_section(pdf_path);
\* if page_num is None: return None
FindSection ==
    /\ pc = "section"
    /\ LET r == find_composition_section(current_doc)
       IN  IF r.exc
           THEN Propagate /\ UNCHANGED <<page_num, page_text, log>>
           ELSE /\ page_num' = r.ret.page_num
                /\ page_text' = r.ret.text
                /\ log' = log
                /\ IF r.ret.page_num = None
                   THEN Return(NoResult)
                   ELSE pc' = "percentages" /\ UNCHANGED <<idx, returned>>
                /\ UNCHANGED escaped
    /\ UNCHANGED <<scraper_vars, docs, year, percentages, total_assets>>

\* (variant: an empty extraction does not end the call)
ExtractPercentages_continues ==
    /\ pc = "percentages"
    /\ percentages' = extract_percentages_from_text(page_text)
    /\ log' = log
    /\ pc' = "cash"
    /\ UNCHANGED <<scraper_vars, docs, idx, year, page_num, page_text, total_assets, returned, escaped>>

\* percentages = self.extract_percentages_from_text(page_text);
\* if not percentages: return None
ExtractPercentages ==
    /\ pc = "percentages"
    /\ percentages' = extract_percentages_from_text(page_text)
    /\ log' = log
    /\ IF DOMAIN percentages' = {}
       THEN Return(NoResult)
       ELSE pc' = "cash" /\ UNCHANGED <<idx, returned>>
    /\ UNCHANGED <<scraper_vars, docs, year, page_num, page_text, total_assets, escaped>>

\* (variant: the derived value replaces a CASH value extracted from the text)
DeriveCash_overwrites ==
    /\ pc = "cash"
    /\ percentages' =
          IF calculate_cash_percentage(percentages) # None
          THEN SetItem(percentages, "CASH", calculate_cash_percentage(percentages))
          ELSE percentages
    /\ pc' = "total"
    /\ UNCHANGED <<scraper_vars, docs, idx, year, page_num, page_text, total_assets, log, returned, escaped>>

\* if 'CASH' not in percentages: cash_pct = ...; if cash_pct is not None: ...
DeriveCash ==
    /\ pc = "cash"
    /\ percentages' =
          IF "CASH" \notin DOMAIN percentages /\ calculate_cash_percentage(percentages) # None
          THEN SetItem(percentages, "CASH", calculate_cash_percentage(percentages))
          ELSE percentages
    /\ pc' = "total"
    /\ UNCHANGED <<scraper_vars, docs, idx, year, page_num, page_text, total_assets, log, returned, escaped>>

\* total_assets = self.extract_total_assets_from_table(pdf_path), with its warning
ExtractTotalAssets ==
    /\ pc = "total"
    /\ LET r == extract_total_assets_from_table(current_doc)
       IN  IF r.exc
           THEN Propagate /\ UNCHANGED <<total_assets, log>>
           ELSE /\ total_assets' = r.ret
                /\ log' = IF r.ret = None THEN log \cup {"no_total_assets"} ELSE log
                /\ pc' = "validate"
                /\ UNCHANGED <<idx, returned, escaped>>
    /\ UNCHANGED <<scraper_vars, docs, year, page_num, page_text, percentages>>

\* abs(total_pct - 100.0)
deviation(p) ==
    IF SumOver(p, DOMAIN p) >= 100 THEN SumOver(p, DOMAIN p) - 100 ELSE 100 - SumOver(p, DOMAIN p)

\* (variant: a deviation equal to the tolerance warns as well)
total_warning_inclusive(p) == VALIDATE_PERCENTAGE_TOTAL /\ deviation(p) >= PERCENTAGE_TOLERANCE

\* `if deviation > config.PERCENTAGE_TOLERANCE` under VALIDATE_PERCENTAGE_TOTAL
total_warning(p) == VALIDATE_PERCENTAGE_TOTAL /\ deviation(p) > PERCENTAGE_TOLERANCE

\* `if missing_assets` under REQUIRE_ALL_ASSETS
missing_warning(p) ==
    /\ REQUIRE_ALL_ASSETS
    /\ \E k \in 1..Len(OUTPUT_COLUMNS_ALLOCATION) : OUTPUT_COLUMNS_ALLOCATION[k] \notin DOMAIN p

\* (variant: the second validation is skipped when the first one warned)
Validate_first_only ==
    /\ pc = "validate"
    /\ log' = log \cup (IF total_warning(percentages) THEN {"percentage_total"}
                        ELSE IF missing_warning(percentages) THEN {"missing_assets"}
                        ELSE {})
    /\ Return(Result(year, total_assets, percentages))
    /\ UNCHANGED <<scraper_vars, docs, year, page_num, page_text, percentages, total_assets, escaped>>

\* result = {...}; the two validations; return result
Validate ==
    /\ pc = "validate"
    /\ log' = log \cup (IF total_warning(percentages) THEN {"percentage_total"} ELSE {})
                  \cup (IF missing_warning(percentages) THEN {"missing_assets"} ELSE {})
    /\ Return(Result(year, total_assets, percentages))
    /\ UNCHANGED <<scraper_vars, docs, year, page_num, page_text, percentages, total_assets, escaped>>

(***************************************************************************)
(* The documents of the model.                                             *)
(***************************************************************************)
MaxPages == 3
MaxBatch == 3

\* str(n) of a natural number
RECURSIVE ToDigits(_)
ToDigits(n) == IF n < 10 THEN <<DIGITS[n + 1]>> ELSE ToDigits(n \div 10) \o <<DIGITS[(n % 10) + 1]>>

\* the three digits of the ones group of a figure
Pad3(n) == <<DIGITS[(n \div 100) + 1], DIGITS[((n \div 10) % 10) + 1], DIGITS[(n % 10) + 1]>>

\* a figure as the report renders it: thousands and ones groups apart
\* ("13 432"), with a comma ("13,432") or unseparated ("13432")
Render(n, style) ==
    CASE style = "split" -> ToDigits(n \div 1000) \o <<" ">> \o Pad3(n % 1000)
      [] style = "comma" -> ToDigits(n \div 1000) \o <<",">> \o Pad3(n % 1000)
      [] OTHER -> ToDigits(n)

NotAvailable == <<"n", "/", "a", " ", "n", "/", "a">>

PathWithYear == <<"d", "l", "/", "A", "R", "_", "2", "0", "2", "4", ".", "p", "d", "f">>
PathWithoutYear == <<"d", "l", "/", "2", "0", "2", "4", "/", "E", ".", "p", "d", "f">>

\* --- composition-of-assets pages: a heading and one optional legend entry per class
CompHeader == <<"T", "h", "e", " ", "c", "o", "m", "p", "o", "s", "i", "t", "i", "o", "n", " ", "o", "f", " ", "a", "s", "s", "e", "t", "s", "\n">>
InfraEntries == { <<>>,
      <<"I", "n", "f", "r", "a", "s", "t", "r", "u", "c", "t", "u", "r", "e", " ", "5", "%", "\n">> }
CashEntries == { <<>>,
      <<"L", "i", "q", "u", "i", "d", "i", "t", "y", " ", "3", "%", "\n">>,
      <<"L", "i", "q", "u", "i", "d", "i", "t", "y", " ", "5", "%", "\n", "L", "i", "q", "u", "i", "d", "i", "t", "y", " ", "d", "e", "p", "o", "s", "i", "t", "s", " ", "4", "%", "\n">> }
BondsEntries == { <<>>,
      <<"B", "o", "n", "d", "s", " ", "2", "7", "%", "\n">>,
      <<"b", "o", "n", "d", "s", "\n", "1", "2", "7", "%", "\n">> }
SharesEntries == { <<>>,
      <<"S", "h", "a", "r", "e", "s", " ", "3", "0", "%", "\n">>,
      <<"E", "q", "u", "i", "t", "i", "e", "s", " ", "2", "8", "%", "\n">> }
RealEstateEntries == { <<>>,
      <<"R", "e", "a", "l", " ", "e", "s", "t", "a", "t", "e", " ", "2", "0", "%", "\n">> }
HedgeLabel == <<"H", "e", "d", "g", "e", " ", "f", "u", "n", "d", "s", " ", "a", "n", "d", " ", "p", "r", "i", "v", "a", "t", "e", " ", "e", "q", "u", "i", "t", "y", " ">>
HedgeValues == {12, 13, 17, 18, 21}
HedgeEntries == {<< >>} \cup {HedgeLabel \o ToDigits(v) \o <<"%", "\n">> : v \in HedgeValues}

CompTexts ==
    {CompHeader \o a \o b \o c \o d \o e \o f :
        a \in InfraEntries, b \in CashEntries, c \in BondsEntries,
        d \in SharesEntries, e \in RealEstateEntries, f \in HedgeEntries}

CompPage == <<"T", "h", "e", " ", "c", "o", "m", "p", "o", "s", "i", "t", "i", "o", "n", " ", "o", "f", " ", "a", "s", "s", "e", "t", "s", " ", "b", "r", "e", "a", "k", "s", " ", "d", "o", "w", "n", " ", "a", "s", " ", "f", "o", "l", "l", "o", "w", "s", ":", "\n", "B", "o", "n", "d", "s", " ", "2", "7", "%", "\n", "S", "h", "a", "r", "e", "s", " ", "3", "0", "%", "\n">>

\* --- balance-sheet pages: a heading, a liabilities line and one total-assets line
\* rendered from a current and a prior figure
BSHeader == <<"B", "a", "l", "a", "n", "c", "e", " ", "s", "h", "e", "e", "t", "\n", "T", "o", "t", "a", "l", " ", "l", "i", "a", "b", "i", "l", "i", "t", "i", "e", "s", " ", "1", "2", " ", "0", "0", "0", " ", "1", "1", " ", "0", "0", "0", "\n">>
Labels == { <<"T", "o", "t", "a", "l", " ", "a", "s", "s", "e", "t", "s", " ">>,
      <<"T", "O", "T", "A", "L", " ", "A", "S", "S", "E", "T", "S", " ">>,
      <<"T", "o", "t", "a", "l", " ", " ", "a", "s", "s", "e", "t", "s", " ">>,
      <<"S", "u", "b", "t", "o", "t", "a", "l", " ", "a", "s", "s", "e", "t", "s", " ">>,
      <<"T", "o", "t", "a", "l", " ", "a", "s", "s", "e", "t", "s", " ", "/", " ", "t", "o", "t", "a", "l", " ", "l", "i", "a", "b", "i", "l", "i", "t", "i", "e", "s", " ">> }
Extras == { <<>>,
      <<"C", "H", "F", " ">>,
      <<"5", " ">> }
CurFigures == {13432, 15432, 9876, 51432}
PriorFigures == {13083}
Styles == {"split", "comma", "plain"}
PriorRenderings ==
    {Render(n, st) : n \in PriorFigures, st \in {"split", "plain"}} \cup {NotAvailable}

\* the lines, each with the current figure it was rendered from (two unseparated
\* figures side by side stay below 2^31, the largest number TLC computes with)
TotalLines ==
    {[text |-> q.l \o q.x \o Render(q.c, q.s) \o <<" ">> \o q.p, cur |-> q.c] :
        q \in {r \in [l : Labels, x : Extras, c : CurFigures, s : Styles, p : PriorRenderings] :
                  r.s = "plain" => r.c < 20000}}

BSPage == <<"B", "a", "l", "a", "n", "c", "e", " ", "s", "h", "e", "e", "t", "\n", "T", "o", "t", "a", "l", " ", "a", "s", "s", "e", "t", "s", " ", "1", "3", " ", "4", "3", "2", " ", "1", "3", " ", "0", "8", "3", "\n">>

Document(path, readable, pages, cur) ==
    [path |-> path, readable |-> readable, pages |-> pages, cur |-> cur]

\* documents that vary the composition section
CompDocs == {Document(PathWithYear, TRUE, <<t, BSPage>>, 13432) : t \in CompTexts}

\* documents that vary the total-assets line
TotalDocs ==
    {Document(PathWithYear, TRUE, <<CompPage, BSHeader \o l.text>>, l.cur) : l \in TotalLines}

\* documents that vary the page layout: pages without text, a cover, a table of
\* contents that names the section, the two sections in any order
Cover == <<"A", "n", "n", "u", "a", "l", " ", "R", "e", "p", "o", "r", "t", " ", "2", "0", "2", "3">>
Contents == <<"C", "o", "n", "t", "e", "n", "t", "s", "\n", "c", "o", "m", "p", "o", "s", "i", "t", "i", "o", "n", " ", "o", "f", " ", "a", "s", "s", "e", "t", "s", " ", "1", "2", "\n">>
PageSet == {NoneText, << >>, Cover, Contents, CompPage, BSPage}

RECURSIVE PageSeqs(_)
PageSeqs(n) ==
    IF n = 0 THEN {<< >>}
    ELSE PageSeqs(n - 1) \cup {Append(s, p) : s \in {q \in PageSeqs(n - 1) : Len(q) = n - 1}, p \in PageSet}

LayoutDocs ==
    {Document(path, TRUE, pages, 13432) :
        path \in {PathWithYear, PathWithoutYear}, pages \in PageSeqs(MaxPages)}
    \cup
    \* files pdfplumber cannot open: what their pages would hold is never seen
    {Document(path, FALSE, <<Cover, CompPage, BSPage>>, 13432) :
        path \in {PathWithYear, PathWithoutYear}}

\* documents whose legend holds an alias only at the end of a longer word
EmbeddedEntries == { <<"E", "u", "r", "o", "b", "o", "n", "d", "s", " ", "4", "%", "\n", "S", "h", "a", "r", "e", "s", " ", "3", "0", "%", "\n">>,
      <<"E", "u", "r", "o", "b", "o", "n", "d", "s", " ", "4", "%", "\n", "B", "o", "n", "d", "s", " ", "2", "7", "%", "\n">>,
      <<"T", "i", "m", "e", "s", "h", "a", "r", "e", "s", " ", "2", "%", "\n">> }
EmbeddedDocs ==
    {Document(PathWithYear, TRUE, <<CompHeader \o e, BSPage>>, 13432) : e \in EmbeddedEntries}

\* documents for the advisory checks: a legend with or without mortgages whose
\* percentages sum to 93, 100, 106, 107 or 113, with and without a balance sheet
MortgagesEntries == { <<>>,
      <<"M", "o", "r", "t", "g", "a", "g", "e", "s", " ", "7", "%", "\n">> }
AdvisoryHedgeValues == {8, 15, 21}
AdvisoryLegend(m, v) ==
    CompHeader
    \o <<"I", "n", "f", "r", "a", "s", "t", "r", "u", "c", "t", "u", "r", "e", " ", "5", "%", "\n", "L", "i", "q", "u", "i", "d", "i", "t", "y", " ", "3", "%", "\n">>
    \o m
    \o <<"B", "o", "n", "d", "s", " ", "2", "7", "%", "\n", "S", "h", "a", "r", "e", "s", " ", "3", "0", "%", "\n", "R", "e", "a", "l", " ", "e", "s", "t", "a", "t", "e", " ", "2", "0", "%", "\n">>
    \o HedgeLabel \o ToDigits(v) \o <<"%", "\n">>
AdvisoryDocs ==
    {Document(PathWithYear, TRUE, <<AdvisoryLegend(m, v)>> \o bs, 13432) :
        m \in MortgagesEntries, v \in AdvisoryHedgeValues, bs \in {<< >>, <<BSPage>>}}

\* documents whose balance sheet has two lines that hold 'total assets'
FirstLines == { <<"S", "u", "b", "t", "o", "t", "a", "l", " ", "a", "s", "s", "e", "t", "s", " ", "1", "3", " ", "4", "3", "2", " ", "1", "3", " ", "0", "8", "3", "\n">>,
      <<"T", "o", "t", "a", "l", " ", "a", "s", "s", "e", "t", "s", " ", "C", "H", "F", " ", "1", "3", " ", "4", "3", "2", " ", "1", "3", "0", "8", "3", "\n">>,
      <<"T", "o", "t", "a", "l", " ", "a", "s", "s", "e", "t", "s", " ", "n", "/", "a", " ", "n", "/", "a", "\n">>,
      <<"T", "o", "t", "a", "l", " ", "a", "s", "s", "e", "t", "s", " ", "1", "3", " ", "4", "3", "2", " ", "1", "3", " ", "0", "8", "3", "\n">> }
SecondLines == { <<"T", "o", "t", "a", "l", " ", "a", "s", "s", "e", "t", "s", " ", "1", "3", " ", "4", "3", "2", " ", "1", "3", " ", "0", "8", "3", "\n">>,
      <<"T", "o", "t", "a", "l", " ", "a", "s", "s", "e", "t", "s", " ", "1", "3", ",", "5", "0", "0", " ", "1", "3", ",", "0", "8", "3", "\n">> }
TwoLineDocs ==
    {Document(PathWithYear, TRUE, <<CompPage, BSHeader \o a \o b>>, 13432) :
        a \in FirstLines, b \in SecondLines}

\* the documents of the batches
BatchDocs ==
    { Document(PathWithYear, TRUE, <<CompHeader \o <<"I", "n", "f", "r", "a", "s", "t", "r", "u", "c", "t", "u", "r", "e", " ", "5", "%", "\n", "B", "o", "n", "d", "s", " ", "2", "7", "%", "\n", "S", "h", "a", "r", "e", "s", " ", "3", "0", "%", "\n", "R", "e", "a", "l", " ", "e", "s", "t", "a", "t", "e", " ", "2", "0", "%", "\n", "H", "e", "d", "g", "e", " ", "f", "u", "n", "d", "s", " ", "a", "n", "d", " ", "p", "r", "i", "v", "a", "t", "e", " ", "e", "q", "u", "i", "t", "y", " ", "1", "3", "%", "\n">>, BSPage>>, 13432),
      Document(PathWithYear, TRUE, <<Contents \o CompHeader \o <<"M", "o", "r", "t", "g", "a", "g", "e", "s", " ", "7", "%", "\n">>, BSPage>>, 13432),
      Document(PathWithYear, FALSE, <<CompPage, BSPage>>, 13432),
      Document(PathWithoutYear, TRUE, <<NoneText, CompPage, BSPage>>, 13432) }

RECURSIVE Batches(_)
Batches(n) ==
    IF n = 0 THEN {<< >>}
    ELSE Batches(n - 1) \cup {Append(s, d) : s \in {q \in Batches(n - 1) : Len(q) = n - 1}, d \in BatchDocs}

(***************************************************************************)
(* The downloader (src/scraper.py): the choice of the reports to download. *)
(* A report is a link of the accordion: the four digits found in its title *)
(* as its year, the title and the address.                                 *)
(***************************************************************************)
\* a < b for two strings of digits, compared character by character as Python
\* compares str
RECURSIVE str_less(_, _)
str_less(a, b) ==
    IF b = << >> THEN FALSE
    ELSE IF a = << >> THEN TRUE
    ELSE IF a[1] = b[1] THEN str_less(Tail(a), Tail(b))
    ELSE DigitVal(a[1]) < DigitVal(b[1])

\* one report put into a list sorted by year, descending: behind the reports
\* whose year is not smaller (a stable sort keeps equal keys in input order)
RECURSIVE insert_desc(_, _)
insert_desc(rs, r) ==
    IF rs = << >> THEN <<r>>
    ELSE IF str_less(Head(rs).year, r.year) THEN <<r>> \o rs
    ELSE <<Head(rs)>> \o insert_desc(Tail(rs), r)

\* sorted(reports, key=lambda x: x['year'], reverse=True)
RECURSIVE sorted_desc(_)
sorted_desc(rs) ==
    IF rs = << >> THEN << >>
    ELSE insert_desc(sorted_desc(SubSeq(rs, 1, Len(rs) - 1)), rs[Len(rs)])

\* (variant: TARGET_YEAR is looked at before PROCESS_ALL_YEARS)
filter_reports_target_first(cfg, rs) ==
    IF cfg.TARGET_YEAR # None
    THEN SelectSeq(rs, LAMBDA r : r.year = ToDigits(cfg.TARGET_YEAR))
    ELSE IF cfg.PROCESS_ALL_YEARS THEN rs
    ELSE IF rs # << >> THEN <<sorted_desc(rs)[1]>>
    ELSE << >>

filter_reports_by_config(cfg, rs) ==
    IF cfg.PROCESS_ALL_YEARS THEN rs
    ELSE IF cfg.TARGET_YEAR = None
         THEN IF rs # << >> THEN <<sorted_desc(rs)[1]>> ELSE << >>
         ELSE SelectSeq(rs, LAMBDA r : r.year = ToDigits(cfg.TARGET_YEAR))

\* target_reports = self.filter_reports_by_config(all_reports)
FilterReports ==
    /\ scraper_pc = "filter"
    /\ filtered' = filter_reports_by_config(config, reports)
    /\ scraper_pc' = "filtered"
    /\ UNCHANGED <<parser_vars, config, reports, download_vars>>

\* --- the report lists and settings of the model
MaxReports == 3

Report(y, title, url) == [year |-> ToDigits(y), title |-> title, url |-> url]

ReportPool ==
    { Report(2024, "Annual Report 2024", "u1"),
      Report(2024, "Annual Report 2024 (short version)", "u2"),
      Report(2023, "Annual Report 2023", "u3"),
      Report(2022, "Annual Report 2022", "u4"),
      Report(2021, "Annual Report 2021", "u5") }

RECURSIVE ReportLists(_)
ReportLists(n) ==
    IF n = 0 THEN {<< >>}
    ELSE ReportLists(n - 1)
         \cup {Append(s, r) : s \in {q \in ReportLists(n - 1) : Len(q) = n - 1}, r \in ReportPool}

\* the settings: the two of config.py as they stand, and the other modes
Settings == [PROCESS_ALL_YEARS : BOOLEAN, TARGET_YEAR : {None, TARGET_YEAR, 2024, 2025}]

(***************************************************************************)
(* download_reports: the browser session, the downloads, the finally       *)
(* clause.  What the site and the network do is chosen freely: each step   *)
(* that can fail may fail.                                                 *)
(***************************************************************************)
\* url.split('/')[-1]
RECURSIVE last_of_split(_)
last_of_split(url) ==
    IF \E i \in 1..Len(url) : url[i] = "/"
    THEN last_of_split(SubSeq(url, Leftmost({i \in 1..Len(url) : url[i] = "/"}) + 1, Len(url)))
    ELSE url

\* filename = url.split('/')[-1] if '/' in url else f"Annual_Report_{year}.pdf"
filename(r) ==
    IF \E i \in 1..Len(r.url) : r.url[i] = "/"
    THEN last_of_split(r.url)
    ELSE <<"A", "n", "n", "u", "a", "l", "_", "R", "e", "p", "o", "r", "t", "_">>
         \o r.year \o <<".", "p", "d", "f">>

\* expected_file of download_pdf_direct: the file name in the year directory of
\* the download directory
expected_file(r) == [year_dir |-> r.year, filename |-> filename(r)]

\* what a download_pdf_direct call gives besides a path: None, or an exception
NoFile == [none |-> TRUE]
Raised == [raised |-> TRUE]

\* a target report whose call has not been made or has not completed
Pending == [pending |-> TRUE]

\* the dict appended to downloaded_files
Entry(r, file_path) == [year |-> r.year, title |-> r.title, file_path |-> file_path]

\* the target reports (by position) still to be processed
pending_reports == {i \in 1..Len(outcomes) : outcomes[i] = Pending}

\* a `return v` or an exception inside the try block: control goes to the
\* finally clause
Leave(v) ==
    /\ result' = v
    /\ scraper_pc' = "finally"

\* self.setup_driver(): os.makedirs or webdriver.Chrome may raise before there is
\* a driver, set_page_load_timeout after
SetupDriver ==
    /\ scraper_pc = "setup"
    /\ \E o \in {"ok", "raise_before_driver", "raise_after_driver"} :
          /\ driver' = IF o = "raise_before_driver" THEN "none" ELSE "open"
          /\ IF o = "ok" THEN scraper_pc' = "navigate" /\ result' = result
             ELSE Leave(Raise)
    /\ UNCHANGED <<parser_vars, config, reports, filtered, call, parallel_downloads,
                   outcomes, downloaded_files>>

\* self.navigate_to_downloads_page(): driver.get may raise
NavigateToDownloadsPage ==
    /\ scraper_pc = "navigate"
    /\ \E ok \in BOOLEAN :
          IF ok THEN scraper_pc' = "cookie" /\ result' = result ELSE Leave(Raise)
    /\ UNCHANGED <<parser_vars, config, reports, filtered, call, parallel_downloads,
                   driver, outcomes, downloaded_files>>

\* self.handle_cookie_consent(): True or False, not looked at; never raises
HandleCookieConsent ==
    /\ scraper_pc = "cookie"
    /\ scraper_pc' = "scroll"
    /\ UNCHANGED <<parser_vars, config, reports, filtered, download_vars>>

\* if not self.scroll_to_annual_reports(): return []
\* (only NoSuchElementException is caught there)
ScrollToAnnualReports ==
    /\ scraper_pc = "scroll"
    /\ \E o \in {"true", "false", "raise"} :
          CASE o = "true" -> scraper_pc' = "expand" /\ result' = result
            [] o = "false" -> Leave(Ok(<< >>))
            [] OTHER -> Leave(Raise)
    /\ UNCHANGED <<parser_vars, config, reports, filtered, call, parallel_downloads,
                   driver, outcomes, downloaded_files>>

\* if not self.expand_annual_reports_accordion(): return []
ExpandAnnualReportsAccordion ==
    /\ scraper_pc = "expand"
    /\ \E ok \in BOOLEAN :
          IF ok THEN scraper_pc' = "links" /\ result' = result ELSE Leave(Ok(<< >>))
    /\ UNCHANGED <<parser_vars, config, reports, filtered, call, parallel_downloads,
                   driver, outcomes, downloaded_files>>

\* --- the links of the accordion and the settings of a download run
\* (a relative URL, and two URLs without a slash: their files are named by the
\* year)
LinkPool ==
    { Report(2024, "Annual Report 2024", <<"/", "d", "/", "a", ".", "p", "d", "f">>),
      Report(2024, "Annual Report 2024 (short version)", <<"b", ".", "p", "d", "f">>),
      Report(2022, "Annual Report 2022", <<"c", ".", "p", "d", "f">>) }

RECURSIVE LinkLists(_)
LinkLists(n) ==
    IF n = 0 THEN {<< >>}
    ELSE LinkLists(n - 1)
         \cup {Append(s, r) : s \in {q \in LinkLists(n - 1) : Len(q) = n - 1}, r \in LinkPool}

DownloadSettings ==
    { [PROCESS_ALL_YEARS |-> TRUE, TARGET_YEAR |-> TARGET_YEAR],
      [PROCESS_ALL_YEARS |-> FALSE, TARGET_YEAR |-> None],
      [PROCESS_ALL_YEARS |-> FALSE, TARGET_YEAR |-> TARGET_YEAR],
      [PROCESS_ALL_YEARS |-> FALSE, TARGET_YEAR |-> 2024] }

\* all_reports = self.get_report_links(); if not all_reports: return []
GetReportLinks ==
    /\ scraper_pc = "links"
    /\ \E links \in LinkLists(MaxReports) :
          /\ reports' = links
          /\ IF links = << >> THEN Leave(Ok(<< >>))
             ELSE scraper_pc' = "filter" /\ result' = result
    /\ UNCHANGED <<parser_vars, config, filtered, call, parallel_downloads, driver,
                   outcomes, downloaded_files>>

\* if not target_reports: return []; downloaded_files = []; the choice between
\* the thread pool and the sequential loop
StartDownloads ==
    /\ scraper_pc = "filtered"
    /\ call = "download_reports"
    /\ IF filtered = << >>
       THEN Leave(Ok(<< >>)) /\ UNCHANGED <<outcomes, downloaded_files>>
       ELSE /\ downloaded_files' = << >>
            /\ outcomes' = [i \in 1..Len(filtered) |-> Pending]
            /\ scraper_pc' = IF parallel_downloads /\ Len(filtered) > 1
                             THEN "parallel" ELSE "sequential"
            /\ result' = result
    /\ UNCHANGED <<parser_vars, config, reports, filtered, call, parallel_downloads, driver>>

\* one turn of `for i, report in enumerate(target_reports, 1)`, or the return
\* behind the loop; an exception of download_pdf_direct (raised before its try)
\* propagates
DownloadSequential ==
    /\ scraper_pc = "sequential"
    /\ IF pending_reports = {}
       THEN Leave(Ok(downloaded_files)) /\ UNCHANGED <<outcomes, downloaded_files>>
       ELSE LET i == Leftmost(pending_reports)
            IN  \E file_path \in {expected_file(filtered[i]), NoFile, Raised} :
                    /\ outcomes' = [outcomes EXCEPT ![i] = file_path]
                    /\ downloaded_files' =
                          IF file_path \notin {NoFile, Raised}
                          THEN Append(downloaded_files, Entry(filtered[i], file_path))
                          ELSE downloaded_files
                    /\ IF file_path = Raised THEN Leave(Raise)
                       ELSE scraper_pc' = scraper_pc /\ result' = result
    /\ UNCHANGED <<parser_vars, config, reports, filtered, call, parallel_downloads, driver>>

\* one turn of `for i, future in enumerate(as_completed(future_to_report), 1)`:
\* the futures complete in any order; an exception of future.result() is caught;
\* or the return behind the loop
DownloadParallel ==
    /\ scraper_pc = "parallel"
    /\ IF pending_reports = {}
       THEN Leave(Ok(downloaded_files)) /\ UNCHANGED <<outcomes, downloaded_files>>
       ELSE \E i \in pending_reports :
               \E file_path \in {expected_file(filtered[i]), NoFile, Raised} :
                    /\ outcomes' = [outcomes EXCEPT ![i] = file_path]
                    /\ downloaded_files' =
                          IF file_path \notin {NoFile, Raised}
                          THEN Append(downloaded_files, Entry(filtered[i], file_path))
                          ELSE downloaded_files
                    /\ scraper_pc' = scraper_pc
                    /\ result' = result
    /\ UNCHANGED <<parser_vars, config, reports, filtered, call, parallel_downloads, driver>>

\* (variant: the driver is quit at the end of the try block, not in a finally
\* clause)
Finally_after_try ==
    /\ scraper_pc = "finally"
    /\ driver' = IF driver = "open" /\ ~result.exc THEN "quit" ELSE driver
    /\ scraper_pc' = IF result.exc THEN "raised" ELSE "returned"
    /\ UNCHANGED <<parser_vars, config, reports, filtered, call, parallel_downloads,
                   outcomes, downloaded_files, result>>

\* finally: if self.driver: self.driver.quit(); then the return value or the
\* exception reaches the caller
Finally ==
    /\ scraper_pc = "finally"
    /\ driver' = IF driver = "open" THEN "quit" ELSE driver
    /\ scraper_pc' = IF result.exc THEN "raised" ELSE "returned"
    /\ UNCHANGED <<parser_vars, config, reports, filtered, call, parallel_downloads,
                   outcomes, downloaded_files, result>>


Init ==
    /\ docs \in {<<d>> : d \in CompDocs \cup TotalDocs \cup LayoutDocs \cup EmbeddedDocs
                                \cup AdvisoryDocs \cup TwoLineDocs}
                \cup {b \in Batches(MaxBatch) : Len(b) >= 2}
    /\ idx = 1
    /\ pc = "year"
    /\ year = NoneText
    /\ page_num = None
    /\ page_text = NoneText
    /\ percentages = EmptyDict
    /\ total_assets = None
    /\ log = {}
    /\ returned = << >>
    /\ escaped = FALSE
    /\ config = [PROCESS_ALL_YEARS |-> PROCESS_ALL_YEARS, TARGET_YEAR |-> TARGET_YEAR]
    /\ reports = << >>
    /\ filtered = << >>
    /\ scraper_pc = "idle"
    /\ call = "none"
    /\ parallel_downloads = PARALLEL_DOWNLOADS
    /\ driver = "none"
    /\ outcomes = << >>
    /\ downloaded_files = << >>
    /\ result = Ok(<< >>)

Next ==
    \/ ExtractYear
    \/ FindSection
    \/ ExtractPercentages
    \/ DeriveCash
    \/ ExtractTotalAssets
    \/ Validate

Spec == Init /\ [][Next]_vars

\* the downloader on its own: a call of filter_reports_by_config with any
\* settings and any list of at most MaxReports links, or a call of
\* download_reports on a new NovartisDownloader
ScraperInit ==
    /\ \/ /\ call = "filter_reports_by_config"
          /\ config \in Settings
          /\ reports \in ReportLists(MaxReports)
          /\ parallel_downloads = PARALLEL_DOWNLOADS
          /\ scraper_pc = "filter"
       \/ /\ call = "download_reports"
          /\ config \in DownloadSettings
          /\ reports = << >>
          /\ parallel_downloads \in BOOLEAN
          /\ scraper_pc = "setup"
    /\ filtered = << >>
    /\ driver = "none"
    /\ outcomes = << >>
    /\ downloaded_files = << >>
    /\ result = Ok(<< >>)
    /\ docs = << >>
    /\ idx = 1
    /\ pc = "done"
    /\ year = NoneText
    /\ page_num = None
    /\ page_text = NoneText
    /\ percentages = EmptyDict
    /\ total_assets = None
    /\ log = {}
    /\ returned = << >>
    /\ escaped = FALSE

ScraperNext ==
    \/ SetupDriver
    \/ NavigateToDownloadsPage
    \/ HandleCookieConsent
    \/ ScrollToAnnualReports
    \/ ExpandAnnualReportsAccordion
    \/ GetReportLinks
    \/ FilterReports
    \/ StartDownloads
    \/ DownloadSequential
    \/ DownloadParallel
    \/ Finally

ScraperSpec == ScraperInit /\ [][ScraperNext]_vars

(***************************************************************************)
(* Properties.  What a document contains is stated here page by page,      *)
(* independently of the order in which the parser scans.                   *)
(***************************************************************************)
Min(S) == CHOOSE i \in S : \A j \in S : i <= j

HasText(t) == t # NoneText

AllDigits(t) == t # << >> /\ \A i \in 1..Len(t) : IsDigit(t[i])

\* the pages (1-based) of a readable document that contain a section keyword
KeywordPages(d) ==
    IF d.readable THEN {i \in 1..Len(d.pages) : HasText(d.pages[i]) /\ has_keyword(d.pages[i])}
    ELSE {}

\* the pages (1-based) of a readable document that contain 'balance sheet'
BalancePages(d) ==
    IF d.readable
    THEN {i \in 1..Len(d.pages) : HasText(d.pages[i]) /\ Contains(lower(d.pages[i]), BalanceSheet)}
    ELSE {}

\* the composition section of a document: the text of its first keyword page
CompositionText(d) == d.pages[Min(KeywordPages(d))]

\* the year of a document is identified
YearIdentified(d) == extract_year_from_pdf(d).ret # NoneText

\* the selected line: on the first balance-sheet page, the first line that holds
\* 'total assets' and not 'total liabilities' (NoneText when there is none)
SelectedLine(d) ==
    LET found == BalancePages(d)
    IN  IF found = {} THEN NoneText
        ELSE LET lines == splitlines(d.pages[Min(found)])
                 qualifying == {j \in 1..Len(lines) : is_total_assets_line(lines[j])}
             IN  IF qualifying = {} THEN NoneText ELSE lines[Min(qualifying)]

HasTotalLine(d) == SelectedLine(d) # NoneText
SelectedParts(d) == split(SelectedLine(d))

\* a canonical line: six tokens, 'Total', 'assets', two digit groups, two more tokens
Canonical(parts) ==
    /\ Len(parts) = 6
    /\ parts[1] = <<"T", "o", "t", "a", "l">>
    /\ parts[2] = <<"a", "s", "s", "e", "t", "s">>
    /\ AllDigits(parts[3])
    /\ AllDigits(parts[4])

\* a call that has run its total-assets step and not yet returned
AfterTotalAssets == pc = "validate"

\* C1: a document without any composition keyword yields no result; a document
\* with a composition section holding a percentage, an identified year and no
\* balance-sheet page yields a result with total_assets absent and percentages
\* populated; no identified year, or no percentage in the section, yields no result.
C1_SectionsDecideResult ==
    \A i \in 1..Len(returned) :
        LET d == docs[i]
            r == returned[i].result
        IN  /\ KeywordPages(d) = {} => r = NoResult
            /\ ~YearIdentified(d) => r = NoResult
            /\ (KeywordPages(d) # {} /\ DOMAIN extract_percentages_from_text(CompositionText(d)) = {})
                  => r = NoResult
            /\ (/\ YearIdentified(d)
                /\ KeywordPages(d) # {}
                /\ DOMAIN extract_percentages_from_text(CompositionText(d)) # {}
                /\ BalancePages(d) = {})
                  => (r # NoResult /\ r.total_assets = None /\ DOMAIN r.percentages # {})

\* C2: when the selected total-assets line is canonical, the value extracted is
\* the number written by tokens 3 and 4 together, whatever tokens 5 and 6 are.
C2_CanonicalLine ==
    (AfterTotalAssets /\ HasTotalLine(current_doc)) =>
        LET parts == SelectedParts(current_doc)
        IN  Canonical(parts) => total_assets = DigitsToNat(parts[3] \o parts[4])

\* C2 happens: a canonical line whose tokens 5 and 6 are no digit groups gave 13432
C2_Witness ==
    /\ AfterTotalAssets
    /\ HasTotalLine(current_doc)
    /\ LET parts == SelectedParts(current_doc)
       IN  Canonical(parts) /\ ~AllDigits(parts[5]) /\ ~AllDigits(parts[6])
    /\ total_assets = 13432

\* C3: a total_assets value, when there is one, is the current-period figure of
\* the selected line, whichever strategy produced it.
C3_CurrentPeriodOnly ==
    (AfterTotalAssets /\ total_assets # None) => total_assets = current_doc.cur

\* the sum of the five classes the derivation needs
FiveSum(p) ==
    p["INFRASTRUCTURE"] + p["BONDS"] + p["EQUITIES"] + p["REALESTATE"]
        + p["HEDGEFUNDS/PRIVATEEQUITY"]

\* C4: with CASH absent, the derivation step sets CASH to 100 minus the sum of the
\* five classes when all five are present and that value is in [0, 100], and
\* leaves CASH absent when one of them is missing or they sum to more than 100.
C4_CashDerived ==
    [][(pc = "cash" /\ "CASH" \notin DOMAIN percentages) =>
          IF known_assets \subseteq DOMAIN percentages /\ FiveSum(percentages) <= 100
          THEN /\ "CASH" \in DOMAIN percentages'
               /\ percentages'["CASH"] = 100 - FiveSum(percentages)
          ELSE "CASH" \notin DOMAIN percentages']_vars

\* C4 happens: CASH was not in the text and has been derived from the five classes
C4_Witness ==
    /\ pc = "total"
    /\ first_alias_match(PDF_ASSET_NAMES[2].names, page_text, lower(page_text), 1) = None
    /\ "CASH" \in DOMAIN percentages
    /\ percentages["CASH"] = 100 - FiveSum(percentages)
    /\ percentages["CASH"] > 0

\* C5: every percentage extracted, and every percentage of a result, is in [0, 100].
C5_PercentagesInRange ==
    /\ pc \in {"cash", "total", "validate"} =>
          \A c \in DOMAIN percentages : 0 <= percentages[c] /\ percentages[c] <= 100
    /\ \A i \in 1..Len(returned) :
          returned[i].result # NoResult =>
              \A c \in DOMAIN returned[i].result.percentages :
                  /\ 0 <= returned[i].result.percentages[c]
                  /\ returned[i].result.percentages[c] <= 100

\* C6: the validation warns about the percentage total exactly when the sum of the
\* percentages is more than 2 away from 100, and returns the result as built.
C6_ToleranceWarning ==
    [][pc = "validate" =>
          LET total_pct == SumOver(percentages, DOMAIN percentages)
          IN  /\ ("percentage_total" \in log') <=> (total_pct > 102 \/ total_pct < 98)
              /\ Len(returned') = Len(returned) + 1
              /\ returned'[Len(returned')].result = Result(year, total_assets, percentages)]_vars

\* C6 happens: a result whose percentages sum to 98 was returned without the warning
C6_Witness ==
    \E i \in 1..Len(returned) :
        /\ returned[i].result # NoResult
        /\ SumOver(returned[i].result.percentages, DOMAIN returned[i].result.percentages) = 98
        /\ "percentage_total" \notin returned[i].log

\* C7: no exception leaves parse_pdf: every call ends by returning None or a
\* result, and the batch goes on to its last document.
C7_NoExceptionEscapes ==
    /\ ~escaped
    /\ pc # "crashed"
    /\ Len(returned) = idx - 1
    /\ pc = "done" => Len(returned) = Len(docs)

\* C7 happens: the first document of a batch failed completely (the file cannot
\* be opened, or a page has no text) and a later one still gave a result
C7_Witness ==
    /\ pc = "done"
    /\ Len(docs) >= 2
    /\ ~docs[1].readable \/ \E i \in 1..Len(docs[1].pages) : ~HasText(docs[1].pages[i])
    /\ returned[1].result = NoResult
    /\ returned[Len(docs)].result # NoResult

\* C8: two calls on the same document return the same result, whatever was
\* parsed before or between them.
C8_SameDocumentSameResult ==
    \A i, j \in 1..Len(returned) :
        docs[i] = docs[j] => returned[i].result = returned[j].result

\* C8 happens: a document parsed twice with a different one parsed in between,
\* all three giving a result
C8_Witness ==
    /\ Len(returned) = 3
    /\ docs[1] = docs[3]
    /\ docs[2] # docs[1]
    /\ returned[1].result # NoResult
    /\ returned[2].result # NoResult
    /\ DOMAIN returned[2].result.percentages # DOMAIN returned[1].result.percentages

\* C9: the section step yields the index and text of the first page, in
\* document order, that contains a keyword, and (None, None) when there is none.
C9_FirstKeywordPage ==
    [][(pc = "section" /\ current_doc.readable) =>
          IF KeywordPages(current_doc) = {}
          THEN page_num' = None /\ page_text' = NoneText
          ELSE /\ page_num' = Min(KeywordPages(current_doc)) - 1
               /\ page_text' = CompositionText(current_doc)]_vars

\* the aliases (by position) of class c that match in the text (ltext its lower())
MatchingAliases(c, text, ltext) ==
    {k \in 1..Len(PDF_ASSET_NAMES[c].names) :
        search_percent(PDF_ASSET_NAMES[c].names[k], text, ltext) # None}

\* C10: for each class the value recorded is that of the first alias, in list
\* order, that matches; a class without a matching alias is absent.
C10_FirstAliasWins ==
    pc = "cash" =>
        LET ltext == lower(page_text)
        IN  \A c \in 1..Len(PDF_ASSET_NAMES) :
                LET matching == MatchingAliases(c, page_text, ltext)
                IN  IF matching = {}
                    THEN PDF_ASSET_NAMES[c].code \notin DOMAIN percentages
                    ELSE /\ PDF_ASSET_NAMES[c].code \in DOMAIN percentages
                         /\ percentages[PDF_ASSET_NAMES[c].code] =
                                search_percent(PDF_ASSET_NAMES[c].names[Min(matching)],
                                               page_text, ltext)

\* C10 happens: two aliases of CASH match with different values, the first in
\* list order stands later in the text, and its value was recorded
C10_Witness ==
    /\ pc = "cash"
    /\ MatchingAliases(2, page_text, lower(page_text)) = {1, 3}
    /\ search_percent(PDF_ASSET_NAMES[2].names[3], page_text, lower(page_text)) = 5
    /\ percentages["CASH"] = 4
    /\ "MORTGAGES" \notin DOMAIN percentages

(***************************************************************************)
(* The fallback strategy, stated over the digit runs of the selected line. *)
(***************************************************************************)
\* the plausible range of the fund's total assets
InRange(v) == 10000 <= v /\ v <= 50000

\* the number written by digit runs i and i + 1 of a line, side by side
PairValue(line, i) == DigitsToNat(findall_digits(line)[i] \o findall_digits(line)[i + 1])

\* the adjacent pairs of digit runs (by the position of the left run) whose
\* concatenation is in range
AcceptedPairs(line) ==
    {i \in 1..(Len(findall_digits(line)) - 1) : InRange(PairValue(line, i))}

\* a call that has run its total-assets step on a selected line that does not
\* split into six tokens
AfterFallbackLine ==
    /\ AfterTotalAssets
    /\ HasTotalLine(current_doc)
    /\ Len(SelectedParts(current_doc)) # 6

\* C11: a selected line that does not split into six tokens gets its value from
\* the fallback tiers in their order: the value of an accepted pair of digit runs
\* when there is one, the 13xxx/14xxx number of the line only when no pair is
\* accepted, and nothing when neither tier has a value.
C11_FallbackTiers ==
    AfterFallbackLine =>
        LET line == SelectedLine(current_doc)
            accepted == AcceptedPairs(line)
        IN  IF accepted # {}
            THEN \E i \in accepted : total_assets = PairValue(line, i)
            ELSE IF search_five_digit(line) # NoneText
                 THEN total_assets = DigitsToNat(search_five_digit(line))
                 ELSE total_assets = None

\* C11 happens: a five-token line has both an accepted pair and a 13xxx number,
\* and the value is that of the pair
C11_Witness ==
    /\ AfterFallbackLine
    /\ LET line == SelectedLine(current_doc)
       IN  /\ AcceptedPairs(line) # {}
           /\ search_five_digit(line) # NoneText
           /\ total_assets # DigitsToNat(search_five_digit(line))
           /\ total_assets = PairValue(line, Min(AcceptedPairs(line)))

\* what the fallback tiers give for a line
FallbackOutcome(line) ==
    IF AcceptedPairs(line) # {} THEN PairValue(line, Min(AcceptedPairs(line)))
    ELSE IF search_five_digit(line) # NoneText THEN DigitsToNat(search_five_digit(line))
    ELSE None

\* C12: a selected six-token line whose first two tokens are not 'Total' and
\* 'assets' (in any case) gets the value the fallback tiers give for it.
C12_LabelMismatchFallsBack ==
    (AfterTotalAssets /\ HasTotalLine(current_doc)) =>
        LET parts == SelectedParts(current_doc)
        IN  (Len(parts) = 6 /\ (lower(parts[1]) # Total \/ lower(parts[2]) # Assets))
                => total_assets = FallbackOutcome(SelectedLine(current_doc))

\* an alias stands in the text as a word of its own (no letter, digit or
\* underscore right before it), followed by whitespace and '<integer>%'
AliasStandsAlone(asset_name, text, ltext) ==
    \E i \in 1..Len(text) :
        /\ MatchAt(ltext, lower(asset_name), i)
        /\ (i = 1 \/ ~IsWord(text[i - 1]))
        /\ i + Len(asset_name) <= Len(text)
        /\ IsSpace(text[i + Len(asset_name)])
        /\ LET d == SpaceRunEnd(text, i + Len(asset_name))
           IN  /\ d <= Len(text)
               /\ IsDigit(text[d])
               /\ DigitRunEnd(text, d) <= Len(text)
               /\ text[DigitRunEnd(text, d)] = "%"

\* C13: a class none of whose aliases stands in the section text as a word of
\* its own followed by '<integer>%' has no entry after the extraction.
C13_WholeAliasOnly ==
    pc = "cash" =>
        LET ltext == lower(page_text)
        IN  \A c \in 1..Len(PDF_ASSET_NAMES) :
                (\A k \in 1..Len(PDF_ASSET_NAMES[c].names) :
                    ~AliasStandsAlone(PDF_ASSET_NAMES[c].names[k], page_text, ltext))
                => PDF_ASSET_NAMES[c].code \notin DOMAIN percentages

\* the step that follows a step that did not fail
NextStep(p) ==
    CASE p = "year" -> "section"
      [] p = "section" -> "percentages"
      [] p = "percentages" -> "cash"
      [] p = "cash" -> "total"
      [] p = "total" -> "validate"
      [] OTHER -> "done"

\* the call in progress ends in this step and hands v to the caller
Ends(v) ==
    /\ idx' = idx + 1
    /\ pc' \in {"year", "done"}
    /\ returned' = Append(returned, v)

\* C14: the steps of a call follow each other in the order year, section,
\* percentages, cash, total assets, validation; a call whose year, section or
\* percentages step fails ends there with no result and no advisory warning, its
\* total-assets step and validation never run; only the validation step, reached
\* from the total-assets step alone, ends a call with a result.
C14_StepOrder ==
    [][LET fatal == \/ pc = "year" /\ year' \in {NoneText, << >>}
                    \/ pc = "section" /\ page_num' = None
                    \/ pc = "percentages" /\ DOMAIN percentages' = {}
       IN  /\ fatal => /\ Ends([result |-> NoResult, log |-> {}])
                       /\ total_assets' = total_assets
           /\ (~fatal /\ pc # "validate") =>
                  /\ pc' = NextStep(pc)
                  /\ idx' = idx
                  /\ returned' = returned
           /\ pc = "validate" =>
                  /\ \E v \in {returned'[Len(returned')]} : Ends(v) /\ v.result # NoResult
           /\ pc' = "validate" => pc = "total"]_vars

\* C14 happens: the year and the section of a document with a balance sheet were
\* found, its section held no percentage, and the call ended without its
\* total-assets step having run
C14_Witness ==
    /\ Len(docs) = 1
    /\ pc = "done"
    /\ returned[1] = [result |-> NoResult, log |-> {}]
    /\ year # NoneText
    /\ page_num # None
    /\ DOMAIN percentages = {}
    /\ BalancePages(docs[1]) # {}
    /\ total_assets = None

\* C15: the derivation step leaves every class other than CASH as it was, leaves
\* a CASH value that is already there as it was, and leaves the whole mapping as
\* it was when the five classes are not all there or 100 minus their sum is
\* outside [0, 100].
C15_DerivationFrame ==
    [][pc = "cash" =>
          /\ DOMAIN percentages' \ {"CASH"} = DOMAIN percentages \ {"CASH"}
          /\ \A k \in DOMAIN percentages \ {"CASH"} : percentages'[k] = percentages[k]
          /\ "CASH" \in DOMAIN percentages => percentages' = percentages
          /\ ~(known_assets \subseteq DOMAIN percentages) => percentages' = percentages
          /\ (known_assets \subseteq DOMAIN percentages /\ FiveSum(percentages) > 100)
                => percentages' = percentages]_vars

\* C15 happens: CASH was extracted from the text, the five classes are all there
\* and would give another value in [0, 100], and the extracted one still stands
C15_Witness ==
    /\ pc = "total"
    /\ known_assets \subseteq DOMAIN percentages
    /\ "CASH" \in DOMAIN percentages
    /\ percentages["CASH"] = first_alias_match(PDF_ASSET_NAMES[2].names, page_text, lower(page_text), 1)
    /\ FiveSum(percentages) <= 100
    /\ percentages["CASH"] # 100 - FiveSum(percentages)

\* a line holds 'total assets' and does not hold 'total liabilities', in any case
Qualifies(line) ==
    /\ \E i \in 1..Len(line) : MatchAt(lower(line), TotalAssets, i)
    /\ ~\E i \in 1..Len(line) : MatchAt(lower(line), TotalLiabilities, i)

\* the numbers a line can be the source of: tokens 3 and 4 of six read
\* together, two adjacent digit runs read together, and a five-digit
\* 13xxx/14xxx number
LineValues(line) ==
    LET parts == split(line)
        runs == findall_digits(line)
        both == IF Len(parts) = 6
                THEN SelectSeq(parts[3] \o parts[4], LAMBDA c : c \notin {" ", ","})
                ELSE << >>
    IN  (IF AllDigits(both) THEN {DigitsToNat(both)} ELSE {})
        \cup {PairValue(line, i) : i \in 1..(Len(runs) - 1)}
        \cup (IF search_five_digit(line) # NoneText
              THEN {DigitsToNat(search_five_digit(line))} ELSE {})

\* C16: total_assets is None when the document has no balance-sheet page or that
\* page has no line that holds 'total assets' without 'total liabilities'; a
\* value, when there is one, is a number of such a line.
C16_QualifyingLineOnly ==
    AfterTotalAssets =>
        IF BalancePages(current_doc) = {} THEN total_assets = None
        ELSE LET lines == splitlines(current_doc.pages[Min(BalancePages(current_doc))])
                 qualifying == {j \in 1..Len(lines) : Qualifies(lines[j])}
             IN  IF qualifying = {} THEN total_assets = None
                 ELSE total_assets # None =>
                          \E j \in qualifying : total_assets \in LineValues(lines[j])

\* C16 happens: the only line of the balance-sheet page that holds 'total assets'
\* also holds 'total liabilities', it carries a figure in range, and there is no
\* value
C16_Witness ==
    /\ AfterTotalAssets
    /\ BalancePages(current_doc) # {}
    /\ LET lines == splitlines(current_doc.pages[Min(BalancePages(current_doc))])
       IN  /\ \A j \in 1..Len(lines) : ~Qualifies(lines[j])
           /\ \E j \in 1..Len(lines) :
                 /\ Contains(lower(lines[j]), TotalAssets)
                 /\ AcceptedPairs(lines[j]) # {}
    /\ total_assets = None

\* C17: on a selected line that does not split into six tokens, when some pair
\* of adjacent digit runs reads as a number in [10000, 50000] the value is that
\* of the leftmost such pair, and the value is never that of a pair that reads
\* as a number outside the range.
C17_PairwiseFirstInRange ==
    AfterFallbackLine =>
        LET line == SelectedLine(current_doc)
            accepted == AcceptedPairs(line)
        IN  /\ accepted # {} =>
                  /\ total_assets = PairValue(line, Min(accepted))
                  /\ 10000 <= total_assets /\ total_assets <= 50000
            /\ \A i \in 1..(Len(findall_digits(line)) - 1) :
                  ~InRange(PairValue(line, i)) => total_assets # PairValue(line, i)

\* C17 happens: the first pair of the line reads as a number above 50000, a
\* later pair is in range and gave the value
C17_Witness ==
    /\ AfterFallbackLine
    /\ LET line == SelectedLine(current_doc)
       IN  /\ AcceptedPairs(line) # {}
           /\ Min(AcceptedPairs(line)) > 1
           /\ PairValue(line, 1) > 50000
           /\ total_assets = PairValue(line, Min(AcceptedPairs(line)))

\* a string reads as a number: without its spaces and commas it is a non-empty
\* string of digits
Parsable(t) == AllDigits(SelectSeq(t, LAMBDA c : c \notin {" ", ","}))

\* strings that are no number
UnparsableSamples == { << >>, <<" ">>, <<",">>, Nan, NotAvailable,
      <<"C", "H", "F", "1", "3">>,
      <<"1", "3", ",", "4", "x", "2">> }

\* C18: when tokens 3 and 4 of a selected six-token 'Total assets' line do not
\* read together as a number there is no value; total_assets is never zero; and
\* clean_number gives None for strings that are no number.
C18_UnparsableIsNone ==
    /\ (AfterTotalAssets /\ HasTotalLine(current_doc)) =>
          LET parts == SelectedParts(current_doc)
          IN  (/\ Len(parts) = 6
               /\ lower(parts[1]) = Total
               /\ lower(parts[2]) = Assets
               /\ ~Parsable(parts[3] \o parts[4])) => total_assets = None
    /\ total_assets # 0
    /\ \A i \in 1..Len(returned) :
          returned[i].result # NoResult => returned[i].result.total_assets # 0
    /\ \A t \in UnparsableSamples : clean_number(t) = None

\* C18 happens: token 3 of a six-token 'Total assets' line is a currency code,
\* and there is no value although the line carries the figure
C18_Witness ==
    /\ AfterTotalAssets
    /\ HasTotalLine(current_doc)
    /\ LET parts == SelectedParts(current_doc)
       IN  /\ Len(parts) = 6
           /\ parts[1] = <<"T", "o", "t", "a", "l">>
           /\ ~Parsable(parts[3] \o parts[4])
           /\ AllDigits(parts[4])
    /\ total_assets = None
    /\ "no_total_assets" \in log

\* the classes the output has an allocation column for
RequiredClasses ==
    {"INFRASTRUCTURE", "CASH", "MORTGAGES", "BONDS", "EQUITIES", "REALESTATE",
     "HEDGEFUNDS/PRIVATEEQUITY"}

\* the three advisory conditions of a result
SumOff(r) ==
    \/ SumOver(r.percentages, DOMAIN r.percentages) > 102
    \/ SumOver(r.percentages, DOMAIN r.percentages) < 98
ClassMissing(r) == ~(RequiredClasses \subseteq DOMAIN r.percentages)
TotalAbsent(r) == r.total_assets = None

\* C19: every call that returns a result has logged each of the three warnings
\* exactly when its own condition holds, whatever the other two conditions are;
\* and a call whose year, section and percentages were found returns a result.
C19_AdvisoryChecksIndependent ==
    \A i \in 1..Len(returned) :
        LET r == returned[i].result
            warned == returned[i].log
        IN  /\ r # NoResult =>
                  /\ ("percentage_total" \in warned) <=> SumOff(r)
                  /\ ("missing_assets" \in warned) <=> ClassMissing(r)
                  /\ ("no_total_assets" \in warned) <=> TotalAbsent(r)
            /\ (/\ YearIdentified(docs[i])
                /\ find_composition_section(docs[i]).ret.page_num # None
                /\ DOMAIN extract_percentages_from_text(
                              find_composition_section(docs[i]).ret.text) # {})
                  => r # NoResult

\* C19 happens: one call logged all three warnings and returned its result
C19_Witness ==
    \E i \in 1..Len(returned) :
        /\ returned[i].result # NoResult
        /\ returned[i].log = {"percentage_total", "missing_assets", "no_total_assets"}
        /\ SumOff(returned[i].result)
        /\ ClassMissing(returned[i].result)
        /\ TotalAbsent(returned[i].result)

\* the combinations of warnings that calls returning a result have logged
WarningSets == {returned[i].log : i \in {j \in 1..Len(returned) : returned[j].result # NoResult}}

\* the year of a report as a number
YearOf(r) == DigitsToNat(r.year)

\* s is t with some of its entries left out
IsSubList(s, t) ==
    \E f \in [1..Len(s) -> 1..Len(t)] :
        /\ \A i \in 1..Len(s) : s[i] = t[f[i]]
        /\ \A i, j \in 1..Len(s) : i < j => f[i] < f[j]

\* C20: with PROCESS_ALL_YEARS set the list comes back as it is, whatever
\* TARGET_YEAR is; otherwise, without a TARGET_YEAR, an empty list gives an
\* empty list and any other list gives one of its reports, of the greatest year;
\* otherwise the reports of year TARGET_YEAR come back in their order.  What
\* comes back is always the input with some entries left out.
C20_FilterByConfig ==
    scraper_pc = "filtered" =>
        /\ config.PROCESS_ALL_YEARS => filtered = reports
        /\ (~config.PROCESS_ALL_YEARS /\ config.TARGET_YEAR = None) =>
              IF reports = << >> THEN filtered = << >>
              ELSE /\ Len(filtered) = 1
                   /\ \E i \in 1..Len(reports) : reports[i] = filtered[1]
                   /\ \A i \in 1..Len(reports) : YearOf(reports[i]) <= YearOf(filtered[1])
        /\ (~config.PROCESS_ALL_YEARS /\ config.TARGET_YEAR # None) =>
              /\ \A i \in 1..Len(filtered) : YearOf(filtered[i]) = config.TARGET_YEAR
              /\ Len(filtered) = Cardinality({i \in 1..Len(reports) :
                                                 YearOf(reports[i]) = config.TARGET_YEAR})
        /\ IsSubList(filtered, reports)

\* C20 happens: PROCESS_ALL_YEARS is set together with a TARGET_YEAR that only
\* one of three reports has, and all three came back
C20_Witness ==
    /\ scraper_pc = "filtered"
    /\ config.PROCESS_ALL_YEARS
    /\ config.TARGET_YEAR # None
    /\ Len(reports) = 3
    /\ Cardinality({i \in 1..3 : YearOf(reports[i]) = config.TARGET_YEAR}) = 1
    /\ filtered = reports

\* what one line yields: tokens 3 and 4 read together when it splits into six
\* tokens that start with 'Total assets' (nothing when they are no number, or
\* when the label differs), and what the fallback tiers give otherwise
LineOutcome(line) ==
    LET parts == split(line)
    IN  IF Len(parts) # 6 THEN FallbackOutcome(line)
        ELSE IF lower(parts[1]) # Total \/ lower(parts[2]) # Assets THEN None
        ELSE IF ~Parsable(parts[3] \o parts[4]) THEN None
        ELSE DigitsToNat(SelectSeq(parts[3] \o parts[4], LAMBDA c : c \notin {" ", ","}))

\* the lines (by position) of the first balance-sheet page of a document that
\* hold 'total assets' without 'total liabilities'
QualifyingLines(d) ==
    LET lines == splitlines(d.pages[Min(BalancePages(d))])
    IN  {j \in 1..Len(lines) : Qualifies(lines[j])}

\* C21: the value is what the first qualifying line of the balance-sheet page
\* yields, a number or nothing, whatever the qualifying lines after it hold.
C21_FirstQualifyingLineDecides ==
    (AfterTotalAssets /\ BalancePages(current_doc) # {}) =>
        LET lines == splitlines(current_doc.pages[Min(BalancePages(current_doc))])
            qualifying == QualifyingLines(current_doc)
        IN  qualifying # {} => total_assets = LineOutcome(lines[Min(qualifying)])

\* C21 happens: the first qualifying line yields nothing, a later one carries a
\* readable figure, and there is no value
C21_Witness ==
    /\ AfterTotalAssets
    /\ BalancePages(current_doc) # {}
    /\ LET lines == splitlines(current_doc.pages[Min(BalancePages(current_doc))])
           qualifying == QualifyingLines(current_doc)
       IN  /\ Cardinality(qualifying) >= 2
           /\ LineOutcome(lines[Min(qualifying)]) = None
           /\ \E j \in qualifying : LineOutcome(lines[j]) # None
    /\ total_assets = None
    /\ "no_total_assets" \in log

\* the pages (1-based) of a document for which extract_text() gives None
TextlessPages(d) == {i \in 1..Len(d.pages) : ~HasText(d.pages[i])}

\* a page without text stands before every page of the set S
TextlessBefore(d, S) == \E t \in TextlessPages(d) : \A i \in S : t < i

\* C22: a section is found only when no page without text stands before the
\* first keyword page; a document in which one does, later keyword pages or not,
\* gets no result; a page without text before the first balance-sheet page does
\* not keep that page from being found and read.
C22_TextlessPageEndsSectionSearch ==
    /\ pc \in {"percentages", "cash", "total", "validate"} =>
          /\ ~TextlessBefore(current_doc, KeywordPages(current_doc))
          /\ page_num = Min(KeywordPages(current_doc)) - 1
    /\ \A i \in 1..Len(returned) :
          (docs[i].readable /\ TextlessBefore(docs[i], KeywordPages(docs[i])))
              => returned[i].result = NoResult
    /\ (/\ AfterTotalAssets
        /\ BalancePages(current_doc) # {}
        /\ TextlessBefore(current_doc, BalancePages(current_doc))) =>
          LET lines == splitlines(current_doc.pages[Min(BalancePages(current_doc))])
          IN  \A j \in 1..Len(lines) :
                  (Qualifies(lines[j]) /\ \A k \in 1..(j - 1) : ~Qualifies(lines[k]))
                      => total_assets = LineOutcome(lines[j])

\* C22 happens: the year of the document was found, a page without text stands
\* before its composition page, the section search gave (None, None) and the
\* call returned nothing
C22_Witness ==
    /\ Len(docs) = 1
    /\ pc = "done"
    /\ year # NoneText
    /\ KeywordPages(docs[1]) # {}
    /\ DOMAIN extract_percentages_from_text(CompositionText(docs[1])) # {}
    /\ TextlessBefore(docs[1], KeywordPages(docs[1]))
    /\ page_num = None
    /\ page_text = NoneText
    /\ returned[1].result = NoResult

\* a page without text before the balance sheet: the value was still read
BalanceSheetBehindTextless ==
    /\ AfterTotalAssets
    /\ BalancePages(current_doc) # {}
    /\ TextlessBefore(current_doc, BalancePages(current_doc))
    /\ total_assets = 13432


\* download_reports has handed control back to its caller
Terminated == call = "download_reports" /\ scraper_pc \in {"returned", "raised"}

\* the target reports (by position) behind the entries of a returned list: a
\* different target report for every entry
Origins(entries) ==
    {f \in [1..Len(entries) -> 1..Len(filtered)] :
        \A j, k \in 1..Len(entries) : j # k => f[j] # f[k]}

\* C23: when download_reports hands control back, by a return or by an
\* exception, a driver that was created has been quit; and the entries of a
\* returned list can be assigned to different target reports so that each entry
\* carries the year and the title of its report and the file path that the
\* download_pdf_direct call of this report returned.
C23_DriverQuitEntriesDownloaded ==
    Terminated =>
        /\ driver # "open"
        /\ ~result.exc =>
              \E f \in Origins(result.ret) :
                  \A k \in 1..Len(result.ret) :
                      /\ outcomes[f[k]] = expected_file(filtered[f[k]])
                      /\ result.ret[k] = Entry(filtered[f[k]], outcomes[f[k]])

\* C23 happens: three different target reports went to the thread pool, the
\* third completed first, the call for the second raised, and the list of the two
\* others was returned with the driver quit
C23_Witness ==
    /\ Terminated
    /\ scraper_pc = "returned"
    /\ parallel_downloads
    /\ driver = "quit"
    /\ Len(filtered) = 3
    /\ \A i, j \in 1..3 : i # j => filtered[i] # filtered[j]
    /\ outcomes[2] = Raised
    /\ Len(result.ret) = 2
    /\ result.ret[1] = Entry(filtered[3], expected_file(filtered[3]))
    /\ result.ret[2] = Entry(filtered[1], expected_file(filtered[1]))

\* other exits of download_reports that occur
DriverQuitAfterException ==
    Terminated /\ result.exc /\ driver = "quit"

NoDriverAfterException ==
    Terminated /\ result.exc /\ driver = "none"

SequentialStoppedByException ==
    /\ Terminated /\ result.exc /\ driver = "quit"
    /\ ~parallel_downloads
    /\ Len(downloaded_files) = 1
    /\ Len(filtered) = 2

SequentialSkippedOne ==
    /\ Terminated /\ ~result.exc /\ driver = "quit"
    /\ ~parallel_downloads
    /\ Len(filtered) = 2
    /\ outcomes[1] = NoFile
    /\ result.ret = <<Entry(filtered[2], expected_file(filtered[2]))>>

EarlyReturnNoTargets ==
    /\ Terminated /\ ~result.exc /\ driver = "quit"
    /\ reports # << >>
    /\ filtered = << >>
    /\ result.ret = << >>

====
